---- MODULE Spec2Model ----
(***************************************************************************)
(* Model of light_lock.py: main -> make_sensor -> run_headless, the        *)
(* detection loop over an ambient light sensor, its SIGINT handler and     *)
(* the lock-screen trigger; and the update callback of run_with_plot, run  *)
(* side by side with the headless loop on the same samples.                *)
(*                                                                         *)
(* Python floats are modelled as exact rationals <<numerator, denominator>>*)
(* in lowest terms with a positive denominator.  Timestamps are seconds,   *)
(* values are lux, derivatives are lux per second.  None is the empty      *)
(* tuple.  The non-finite floats have denominator 0: <<1, 0>> is inf,      *)
(* <<-1, 0>> is -inf and <<0, 0>> is nan.                                  *)
(***************************************************************************)
EXTENDS Integers, Sequences, FiniteSets, TLC

\* ---------------------------------------------------------------- bounds
MaxReads == 4      \* sensor reads one run of the model may start
MaxLux == 4        \* largest sensor value, in half lux
MaxWindow == 2     \* largest configured DERIV_WINDOW
MaxStretch == 50   \* longest time between two reads, in periods
MaxStamp == 2      \* largest timestamp handed to the detection step alone, in periods
ClockStart == 3    \* reading of the monotonic clock when the plot path starts, in seconds

\* ------------------------------------------------------ program constants
HZ == 25
MAX_SECONDS == 120
JUMP_RATE == 1
EPS == 1

None == <<>>

\* ------------------------------------------------------ rational numbers
Abs(n) == IF n < 0 THEN -n ELSE n

RECURSIVE GCD(_, _)
GCD(a, b) == IF b = 0 THEN a ELSE GCD(b, a % b)

Sgn(n) == IF n > 0 THEN 1 ELSE IF n < 0 THEN -1 ELSE 0

NaN == <<0, 0>>

Inf == <<1, 0>>

IsFinite(a) == a[2] # 0

Rat(n, d) == IF d = 0 THEN <<Sgn(n), 0>>
             ELSE LET g == GCD(Abs(n), d) IN <<n \div g, d \div g>>

Int2Rat(n) == <<n, 1>>

\* inf + inf = inf, inf + -inf = nan, nan + x = nan
RatAdd(a, b) == IF a[2] = 0 /\ b[2] = 0 THEN (IF a = b THEN a ELSE NaN)
                ELSE Rat(a[1] * b[2] + b[1] * a[2], a[2] * b[2])

\* inf - -inf = inf, inf - inf = nan, nan - x = nan
RatSub(a, b) == IF a[2] = 0 /\ b[2] = 0 THEN (IF a = <<-b[1], 0>> THEN a ELSE NaN)
                ELSE Rat(a[1] * b[2] - b[1] * a[2], a[2] * b[2])

RatDiv(a, b) == IF b[1] > 0 THEN Rat(a[1] * b[2], a[2] * b[1])
                ELSE Rat(-(a[1] * b[2]), a[2] * (-b[1]))

RatMul(a, b) == Rat(a[1] * b[1], a[2] * b[2])

RatAbs(a) == <<Abs(a[1]), a[2]>>

\* a comparison with nan is false
RatLE(a, b) == /\ a # NaN
               /\ b # NaN
               /\ IF a[2] = 0 /\ b[2] = 0 THEN a[1] <= b[1]
                  ELSE a[1] * b[2] <= b[1] * a[2]

RatLT(a, b) == /\ a # NaN
               /\ b # NaN
               /\ IF a[2] = 0 /\ b[2] = 0 THEN a[1] < b[1]
                  ELSE a[1] * b[2] < b[1] * a[2]

RatMax(a, b) == IF RatLE(a, b) THEN b ELSE a

\* float(sensor.get_current_lux()): the sensor reports v half lux.
ToFloat(v) == Rat(v, 2)

\* ------------------------------------------------------------- variables
VARIABLES
    DERIV_WINDOW,        \* configuration: window capacity
    LOCKSCREEN_ON_JUMP,  \* configuration: trigger enabled
    pc,                  \* position of the main thread
    exit_code,           \* None while the process runs, <<code>> once it ended
    handler,             \* installed SIGINT handler: "default" or "sigint"
    sig,                 \* SIGINT: "none", "pending" (delivered, handler not yet run), "handled"
    now,                 \* the monotonic clock
    deriv, last_t, last_y,  \* run_headless: detector state
    y, t, is_jump,          \* run_headless: locals of the current tick
    stdout, stderr,      \* lines printed so far
    reads,               \* calls of sensor.get_current_lux() started
    lock_calls,          \* invocations of do_lockscreen
    pmset,               \* how subprocess.run(["pmset", ...]) ended, "not run" before
    events,              \* the (t, y, is_jump) stream of the completed detections
    t0,                                  \* run_with_plot: clock reading at its start
    plot_deriv, plot_last_t, plot_last_y,   \* run_with_plot: detector state
    xs, ys,                              \* run_with_plot: the plotted samples
    jx, jy,                              \* run_with_plot: the marked jump points
    frame,               \* calls of update completed
    plot_pc              \* run_with_plot: "idle", "running" or "Triggered"

vars == <<DERIV_WINDOW, LOCKSCREEN_ON_JUMP, pc, exit_code, handler, sig, now,
          deriv, last_t, last_y, y, t, is_jump, stdout, stderr, reads,
          lock_calls, pmset, events, t0, plot_deriv, plot_last_t, plot_last_y,
          xs, ys, jx, jy, frame, plot_pc>>

plot == <<t0, plot_deriv, plot_last_t, plot_last_y, xs, ys, jx, jy, frame, plot_pc>>

cfg == <<DERIV_WINDOW, LOCKSCREEN_ON_JUMP>>

detector == <<deriv, last_t, last_y>>

locals == <<y, t, is_jump>>

\* ------------------------------------------------------------- the detector
\* period = 1.0 / max(1e-3, HZ)
period == RatDiv(Int2Rat(1), RatMax(Rat(1, 1000), Int2Rat(HZ)))

\* collections.deque(maxlen=max(2, DERIV_WINDOW))
maxlen == IF DERIV_WINDOW > 2 THEN DERIV_WINDOW ELSE 2

\* Faulty variant: a list that is never trimmed.
DequeAppendUnbounded(d, x, n) == Append(d, x)

\* deque.append on a deque bounded by n: the oldest entry leaves when full
DequeAppend(d, x, n) == IF Len(d) >= n THEN Append(Tail(d), x) ELSE Append(d, x)

RECURSIVE Sum(_)
Sum(d) == IF d = <<>> THEN Int2Rat(0) ELSE RatAdd(Head(d), Sum(Tail(d)))

\* Faulty variant: the sum is not divided.
MeanNoDiv(d) == Sum(d)

\* rate = sum(deriv) / len(deriv)
Mean(d) == RatDiv(Sum(d), Int2Rat(Len(d)))

\* Faulty variant: the interval is not clamped.
ClampDtAbsent(tt, lt) == RatSub(tt, lt)

\* dt = max(1e-6, t - last_t)
ClampDt(tt, lt) == RatMax(Rat(1, 1000000), RatSub(tt, lt))

\* Faulty variant: any change of the value qualifies.
QualifiesAnyChange(dy) == dy[1] # 0

\* abs(dy) >= EPS
Qualifies(dy) == RatLE(Int2Rat(EPS), RatAbs(dy))

\* Faulty variant: the sign of the rate is kept.
IsJumpRateSigned(rate) == RatLE(Int2Rat(JUMP_RATE), rate)

\* Faulty variant: a rate equal to the threshold is not a jump.
IsJumpRateStrict(rate) == RatLT(Int2Rat(JUMP_RATE), RatAbs(rate))

\* abs(rate) >= JUMP_RATE
IsJumpRate(rate) == RatLE(Int2Rat(JUMP_RATE), RatAbs(rate))

Pow10(k) == IF k = 2 THEN 100 ELSE 1000

\* f"{q:.<digits>f}": q rounded to that many decimals, ties to even; the
\* result is the printed number counted in units of 10^-digits.
\* A non-finite q is printed as "inf", "-inf" or "nan".
FormatFixed(q, digits) ==
    IF q[2] = 0
    THEN (IF q[1] > 0 THEN "inf" ELSE IF q[1] < 0 THEN "-inf" ELSE "nan")
    ELSE LET scaled == q[1] * Pow10(digits)
             fl == scaled \div q[2]
             twice == 2 * (scaled % q[2])
         IN  IF twice < q[2] THEN fl
             ELSE IF twice > q[2] THEN fl + 1
             ELSE IF fl % 2 = 0 THEN fl ELSE fl + 1

\* print(f"[JUMP] t={t:.3f}, lux={y:.2f}, rate={rate:.2f}")
JumpLine(tt, yy, rate) ==
    <<"JUMP", FormatFixed(tt, 3), FormatFixed(yy, 2), FormatFixed(rate, 2)>>

\* Faulty variant: the line is printed for every qualifying tick.
JumpOutputAlways(jump, tt, yy, rate) == <<JumpLine(tt, yy, rate)>>

\* The lines printed by the detection of one tick.
JumpOutput(jump, tt, yy, rate) ==
    IF jump THEN <<JumpLine(tt, yy, rate)>> ELSE <<>>

\* Lines 41-51 of run_headless: the verdict of one tick, the window after it
\* and what it prints.
Detection(dq, lt, ly, tt, yy) ==
    IF lt = None
    THEN [deriv |-> dq, is_jump |-> FALSE, out |-> <<>>]
    ELSE LET dt == ClampDt(tt, lt)
             dy == RatSub(yy, ly)
         IN  IF Qualifies(dy)
             THEN LET d2 == DequeAppend(dq, RatDiv(dy, dt), maxlen)
                      rate == Mean(d2)
                  IN  [deriv |-> d2, is_jump |-> IsJumpRate(rate),
                       out |-> JumpOutput(IsJumpRate(rate), tt, yy, rate)]
             ELSE [deriv |-> dq, is_jump |-> FALSE, out |-> <<>>]

\* ------------------------------------------------------------------- Init
\* run_headless is the path taken: run_with_plot is never entered
PlotIdle ==
    /\ t0 = None
    /\ plot_deriv = <<>>
    /\ plot_last_t = None
    /\ plot_last_y = None
    /\ xs = <<>>
    /\ ys = <<>>
    /\ jx = <<>>
    /\ jy = <<>>
    /\ frame = 0
    /\ plot_pc = "idle"

Init ==
    /\ PlotIdle
    /\ DERIV_WINDOW \in 1..MaxWindow
    /\ LOCKSCREEN_ON_JUMP \in BOOLEAN
    /\ pc = "main"
    /\ exit_code = None
    /\ handler = "default"
    /\ sig = "none"
    /\ now = Int2Rat(0)
    /\ deriv = <<>>
    /\ last_t = None
    /\ last_y = None
    /\ y = None
    /\ t = None
    /\ is_jump = FALSE
    /\ stdout = <<>>
    /\ stderr = <<>>
    /\ reads = 0
    /\ lock_calls = 0
    /\ pmset = "not run"
    /\ events = <<>>

\* The interpreter runs a pending signal handler before the next statement
\* of the main thread.
MainStep(at) == pc = at /\ sig # "pending"

\* ---------------------------------------------------------------- actions
\* Faulty variant: make_sensor prints and returns without a sensor.
make_sensor_returns_none ==
    /\ MainStep("main")
    /\ \E found \in BOOLEAN :
         IF found
         THEN /\ stdout' = Append(stdout, <<"sensor">>)
              /\ pc' = "setup"
              /\ UNCHANGED <<stderr, exit_code>>
         ELSE /\ stderr' = Append(stderr, "no sensor")
              /\ pc' = "setup"
              /\ UNCHANGED <<stdout, exit_code>>
    /\ UNCHANGED <<plot, cfg, handler, sig, now, detector, locals, reads, lock_calls, pmset, events>>

\* main: s = make_sensor()
make_sensor ==
    /\ MainStep("main")
    /\ \E found \in BOOLEAN :
         IF found
         THEN /\ stdout' = Append(stdout, <<"sensor">>)
              /\ pc' = "setup"
              /\ UNCHANGED <<stderr, exit_code>>
         ELSE /\ stderr' = Append(stderr, "no sensor")
              /\ exit_code' = <<1>>
              /\ pc' = "NoSensor"
              /\ UNCHANGED stdout
    /\ UNCHANGED <<plot, cfg, handler, sig, now, detector, locals, reads, lock_calls, pmset, events>>

\* Faulty variant: the reference sample starts as (0, 0) instead of None.
run_headless_setup_zero ==
    /\ pc = "setup" /\ sig # "pending"
    /\ deriv' = <<>>
    /\ last_t' = Int2Rat(0)
    /\ last_y' = Int2Rat(0)
    /\ handler' = "sigint"
    /\ pc' = "loop"
    /\ UNCHANGED <<plot, cfg, exit_code, sig, now, locals, stdout, stderr, reads, lock_calls, pmset, events>>

\* run_headless, lines 29-36: fresh detector state, then the handler is installed
run_headless_setup ==
    /\ MainStep("setup")
    /\ deriv' = <<>>
    /\ last_t' = None
    /\ last_y' = None
    /\ handler' = "sigint"
    /\ pc' = "loop"
    /\ UNCHANGED <<plot, cfg, exit_code, sig, now, locals, stdout, stderr, reads, lock_calls, pmset, events>>

\* line 39: the call of sensor.get_current_lux() starts
ReadCall ==
    /\ MainStep("loop")
    /\ reads < MaxReads
    /\ reads' = reads + 1
    /\ pc' = "reading"
    /\ UNCHANGED <<plot, cfg, exit_code, handler, sig, now, detector, locals, stdout, stderr,
                   lock_calls, pmset, events>>

\* lines 39-41: the read returns, the clock is read, is_jump = False
ReadReturn ==
    /\ MainStep("reading")
    /\ \E v \in 0..MaxLux : y' = ToFloat(v)
    /\ t' = now
    /\ is_jump' = FALSE
    /\ pc' = "detect"
    /\ UNCHANGED <<plot, cfg, exit_code, handler, sig, now, detector, stdout, stderr, reads,
                   lock_calls, pmset, events>>

\* Faulty variant: the exception is caught and the loop goes on.
ReadRaise_caught ==
    /\ MainStep("reading")
    /\ stderr' = Append(stderr, "Traceback")
    /\ exit_code' = exit_code
    /\ pc' = "sleep"
    /\ UNCHANGED <<plot, cfg, handler, sig, now, detector, locals, stdout, reads, lock_calls, pmset,
                   events>>

\* lines 39-41 when the sensor reports nan or inf: float() returns it as it is
ReadReturnNonFinite ==
    /\ MainStep("reading")
    /\ \E v \in {NaN, Inf} : y' = v
    /\ t' = now
    /\ is_jump' = FALSE
    /\ pc' = "detect"
    /\ UNCHANGED <<plot, cfg, exit_code, handler, sig, now, detector, stdout, stderr, reads,
                   lock_calls, pmset, events>>

\* line 39: the read raises; nothing catches it
ReadRaise ==
    /\ MainStep("reading")
    /\ stderr' = Append(stderr, "Traceback")
    /\ exit_code' = <<1>>
    /\ pc' = "Failed"
    /\ UNCHANGED <<plot, cfg, handler, sig, now, detector, locals, stdout, reads, lock_calls, pmset,
                   events>>

\* Faulty variant: the reference sample is replaced by qualifying samples only.
Detect_keeps_reference ==
    /\ MainStep("detect")
    /\ LET r == Detection(deriv, last_t, last_y, t, y)
       IN  /\ deriv' = r.deriv
           /\ is_jump' = r.is_jump
           /\ stdout' = stdout \o r.out
           /\ events' = Append(events, <<t, y, r.is_jump>>)
           /\ last_t' = IF last_t = None \/ r.deriv # deriv THEN t ELSE last_t
           /\ last_y' = IF last_t = None \/ r.deriv # deriv THEN y ELSE last_y
    /\ pc' = "dispatch"
    /\ UNCHANGED <<plot, cfg, exit_code, handler, sig, now, y, t, stderr, reads, lock_calls, pmset>>

\* lines 43-53
Detect ==
    /\ MainStep("detect")
    /\ LET r == Detection(deriv, last_t, last_y, t, y)
       IN  /\ deriv' = r.deriv
           /\ is_jump' = r.is_jump
           /\ stdout' = stdout \o r.out
           /\ events' = Append(events, <<t, y, r.is_jump>>)
    /\ last_t' = t
    /\ last_y' = y
    /\ pc' = "dispatch"
    /\ UNCHANGED <<plot, cfg, exit_code, handler, sig, now, y, t, stderr, reads, lock_calls, pmset>>

\* Faulty variant: do_lockscreen returns to the loop.
do_lockscreen_returns(log) ==
    /\ lock_calls' = lock_calls + 1
    /\ \E outcome \in {"exit 0", "exit 1", "raised"} :
         /\ pmset' = outcome
         /\ stderr' = IF outcome = "raised" THEN Append(log, "pmset error") ELSE log
    /\ exit_code' = exit_code
    /\ pc' = "sleep"

\* Faulty variant: an exception of subprocess.run is not caught.
do_lockscreen_uncaught(log) ==
    /\ lock_calls' = lock_calls + 1
    /\ \E outcome \in {"exit 0", "exit 1", "raised"} :
         /\ pmset' = outcome
         /\ stderr' = IF outcome = "raised" THEN Append(log, "Traceback") ELSE log
         /\ exit_code' = IF outcome = "raised" THEN <<1>> ELSE <<0>>
         /\ pc' = IF outcome = "raised" THEN "Failed" ELSE "Triggered"

\* lines 13-18: subprocess.run returns, whatever the exit status of pmset
\* (check=False), or raises and the error is printed; then sys.exit(0)
do_lockscreen(log) ==
    /\ lock_calls' = lock_calls + 1
    /\ \E outcome \in {"exit 0", "exit 1", "raised"} :
         /\ pmset' = outcome
         /\ stderr' = IF outcome = "raised" THEN Append(log, "pmset error") ELSE log
    /\ exit_code' = <<0>>
    /\ pc' = "Triggered"

\* Faulty variant: the configuration flag is not consulted.
ShouldLockAnyJump == is_jump

\* if LOCKSCREEN_ON_JUMP and is_jump
ShouldLock == LOCKSCREEN_ON_JUMP /\ is_jump

\* lines 55-57
Dispatch ==
    /\ MainStep("dispatch")
    /\ IF ShouldLock
       THEN do_lockscreen(Append(stderr, "Jump - lock..."))
       ELSE /\ pc' = "sleep"
            /\ UNCHANGED <<stderr, exit_code, lock_calls, pmset>>
    /\ UNCHANGED <<plot, cfg, handler, sig, now, detector, locals, stdout, reads, events>>

\* Faulty variant: the loop goes on without sleeping.
Sleep_skipped ==
    /\ MainStep("sleep")
    /\ now' = now
    /\ pc' = "loop"
    /\ UNCHANGED <<plot, cfg, exit_code, handler, sig, detector, locals, stdout, stderr, reads,
                   lock_calls, pmset, events>>

\* line 59: time.sleep(period) suspends for at least period; the clock has
\* advanced by one period, or by MaxStretch periods, when the loop goes on
Sleep ==
    /\ MainStep("sleep")
    /\ \E k \in {1, MaxStretch} : now' = RatAdd(now, RatMul(Int2Rat(k), period))
    /\ pc' = "loop"
    /\ UNCHANGED <<plot, cfg, exit_code, handler, sig, detector, locals, stdout, stderr, reads,
                   lock_calls, pmset, events>>

\* SIGINT is delivered to the running process
SIGINT ==
    /\ exit_code = None
    /\ sig = "none"
    /\ sig' = "pending"
    /\ UNCHANGED <<plot, cfg, pc, exit_code, handler, now, detector, locals, stdout, stderr,
                   reads, lock_calls, pmset, events>>

\* Faulty variant: the handler prints and returns.
sigint_returns ==
    /\ sig = "pending"
    /\ handler = "sigint"
    /\ stderr' = Append(stderr, "Ctrl+C")
    /\ sig' = "handled"
    /\ UNCHANGED <<plot, cfg, pc, exit_code, handler, now, detector, locals, stdout, reads,
                   lock_calls, pmset, events>>

\* lines 33-35: the installed handler
sigint ==
    /\ sig = "pending"
    /\ handler = "sigint"
    /\ stderr' = Append(stderr, "Ctrl+C")
    /\ exit_code' = <<0>>
    /\ pc' = "Stopped"
    /\ sig' = "handled"
    /\ UNCHANGED <<plot, cfg, handler, now, detector, locals, stdout, reads, lock_calls, pmset, events>>

\* Before line 36 the interpreter's default handler raises KeyboardInterrupt,
\* which nothing catches: the process ends with a non-zero status.
KeyboardInterrupt ==
    /\ sig = "pending"
    /\ handler = "default"
    /\ stderr' = Append(stderr, "KeyboardInterrupt")
    /\ \E code \in {1, 130} : exit_code' = <<code>>
    /\ pc' = "Interrupted"
    /\ sig' = "handled"
    /\ UNCHANGED <<plot, cfg, handler, now, detector, locals, stdout, reads, lock_calls, pmset, events>>

Next ==
    \/ make_sensor
    \/ run_headless_setup
    \/ ReadCall
    \/ ReadReturn
    \/ ReadRaise
    \/ Detect
    \/ Dispatch
    \/ Sleep
    \/ SIGINT
    \/ sigint
    \/ KeyboardInterrupt

Spec == Init /\ [][Next]_vars

FairSpec == Spec /\ WF_vars(sigint)

\* The program with a sensor that may also report nan and inf.
NonFiniteNext == Next \/ ReadReturnNonFinite

NonFiniteSpec == Init /\ [][NonFiniteNext]_vars

\* The detection step of lines 43-53 taken alone, applied to a reference
\* sample and a new sample whose timestamps are in any order.
Stamps == {Rat(k, HZ) : k \in 0..MaxStamp}

DetectorInit ==
    /\ PlotIdle
    /\ DERIV_WINDOW \in 1..MaxWindow
    /\ LOCKSCREEN_ON_JUMP = FALSE
    /\ pc = "detect"
    /\ exit_code = None
    /\ handler = "sigint"
    /\ sig = "none"
    /\ last_t \in Stamps
    /\ \E v \in 0..MaxLux : last_y = ToFloat(v)
    /\ t \in Stamps
    /\ \E v \in 0..MaxLux : y = ToFloat(v)
    /\ now = t
    /\ deriv = <<>>
    /\ is_jump = FALSE
    /\ stdout = << <<"sensor">> >>
    /\ stderr = <<>>
    /\ reads = 2
    /\ lock_calls = 0
    /\ pmset = "not run"
    /\ events = << <<last_t, last_y, FALSE>> >>

DetectorSpec == DetectorInit /\ [][Detect]_vars

\* ------------------------------------------------------------ the plot path
\* main runs run_with_plot or run_headless (line 134).  To compare them the
\* two run side by side: update is fed, tick by tick, the values and the
\* clock readings that run_headless read, recorded in events.  exit_code,
\* stderr, lock_calls and pmset stay those of the headless run.

\* Faulty variant: the capacity is DERIV_WINDOW itself.
plot_maxlen_unclamped == DERIV_WINDOW

\* line 77: collections.deque(maxlen=max(2, DERIV_WINDOW))
plot_maxlen == IF DERIV_WINDOW > 2 THEN DERIV_WINDOW ELSE 2

\* lines 90-101 of update: the verdict, the window after the tick and the
\* jump points marked so far
update_detection(dq, lt, ly, tt, yy, mx, my) ==
    IF lt = None
    THEN [deriv |-> dq, is_jump |-> FALSE, jx |-> mx, jy |-> my]
    ELSE LET dt == RatMax(Rat(1, 1000000), RatSub(tt, lt))
             dy == RatSub(yy, ly)
         IN  IF RatLE(Int2Rat(EPS), RatAbs(dy))
             THEN LET d2 == DequeAppend(dq, RatDiv(dy, dt), plot_maxlen)
                      rate == RatDiv(Sum(d2), Int2Rat(Len(d2)))
                  IN  IF RatLE(Int2Rat(JUMP_RATE), RatAbs(rate))
                      THEN [deriv |-> d2, is_jump |-> TRUE,
                            jx |-> Append(mx, tt), jy |-> Append(my, yy)]
                      ELSE [deriv |-> d2, is_jump |-> FALSE, jx |-> mx, jy |-> my]
             ELSE [deriv |-> dq, is_jump |-> FALSE, jx |-> mx, jy |-> my]

\* lines 107-109: samples older than MAX_SECONDS leave the plot
RECURSIVE TrimOld(_, _)
TrimOld(px, py) ==
    IF px # <<>> /\ RatLT(Int2Rat(MAX_SECONDS), RatSub(px[Len(px)], px[1]))
    THEN TrimOld(Tail(px), Tail(py))
    ELSE <<px, py>>

\* lines 86-127: one call of update by the animation
update ==
    /\ plot_pc = "running"
    /\ frame < Len(events)
    /\ LET yy == events[frame + 1][2]
           tt == RatSub(events[frame + 1][1], t0)
           r == update_detection(plot_deriv, plot_last_t, plot_last_y, tt, yy, jx, jy)
           kept == TrimOld(Append(xs, tt), Append(ys, yy))
       IN  /\ plot_deriv' = r.deriv
           /\ jx' = r.jx
           /\ jy' = r.jy
           /\ plot_last_t' = tt
           /\ plot_last_y' = yy
           /\ xs' = kept[1]
           /\ ys' = kept[2]
           /\ plot_pc' = IF LOCKSCREEN_ON_JUMP /\ r.is_jump THEN "Triggered" ELSE "running"
    /\ frame' = frame + 1
    /\ UNCHANGED <<t0, cfg, pc, exit_code, handler, sig, now, detector, locals, stdout,
                   stderr, reads, lock_calls, pmset, events>>

\* lines 74-78 have run: t0 is the clock's reading, the plot and the detector
\* state are fresh; the headless run starts at the same moment
PairInit ==
    /\ DERIV_WINDOW \in 1..MaxWindow
    /\ LOCKSCREEN_ON_JUMP \in BOOLEAN
    /\ pc = "main"
    /\ exit_code = None
    /\ handler = "default"
    /\ sig = "none"
    /\ now = Int2Rat(ClockStart)
    /\ deriv = <<>>
    /\ last_t = None
    /\ last_y = None
    /\ y = None
    /\ t = None
    /\ is_jump = FALSE
    /\ stdout = <<>>
    /\ stderr = <<>>
    /\ reads = 0
    /\ lock_calls = 0
    /\ pmset = "not run"
    /\ events = <<>>
    /\ t0 = now
    /\ plot_deriv = <<>>
    /\ plot_last_t = None
    /\ plot_last_y = None
    /\ xs = <<>>
    /\ ys = <<>>
    /\ jx = <<>>
    /\ jy = <<>>
    /\ frame = 0
    /\ plot_pc = "running"

PairNext == Next \/ update

PairSpec == PairInit /\ [][PairNext]_vars

\* ------------------------------------------- the sample stream, restated
\* The definitions below recompute steps and rates from the recorded
\* (t, y, is_jump) stream alone, independently of the detector's variables.
EvT(i) == events[i][1]

EvY(i) == events[i][2]

EvJump(i) == events[i][3]

Ticks == 1..Len(events)

Steps == 2..Len(events)

StepDy(i) == RatSub(EvY(i), EvY(i - 1))

StepNoise(i) == RatLT(RatAbs(StepDy(i)), Int2Rat(EPS))

StepRate(i) == RatDiv(StepDy(i), RatMax(Rat(1, 1000000), RatSub(EvT(i), EvT(i - 1))))

\* The derivatives of the qualifying steps among the first n samples, in order.
RECURSIVE QualRates(_)
QualRates(n) ==
    IF n < 2 THEN <<>>
    ELSE IF StepNoise(n) THEN QualRates(n - 1)
    ELSE Append(QualRates(n - 1), StepRate(n))

\* The last m entries of q all equal its last entry.
TailConstant(q, m) ==
    /\ m >= 1
    /\ Len(q) >= m
    /\ \A j \in (Len(q) - m + 1)..Len(q) : q[j] = q[Len(q)]

Capacity == IF DERIV_WINDOW < 2 THEN 2 ELSE DERIV_WINDOW

Min(a, b) == IF a < b THEN a ELSE b

AtOrAbove(r) == RatLE(Int2Rat(JUMP_RATE), RatAbs(r))

JumpLines == SelectSeq(stdout, LAMBDA l : l[1] = "JUMP")

\* ------------------------------------------------------------------ claims
\* C1 (P2, noise floor): while every step of the sample stream is below EPS,
\* no tick has the verdict is_jump = true and no jump line is printed,
\* whatever the cumulative change.
P2_NoiseFloor ==
    (\A i \in Steps : StepNoise(i)) =>
        /\ \A i \in Ticks : ~EvJump(i)
        /\ ~is_jump
        /\ JumpLines = <<>>

\* C1 witness: three samples, each step below EPS, cumulative change of at
\* least EPS.
P2_Witness ==
    /\ Len(events) >= 3
    /\ \A i \in Steps : StepNoise(i)
    /\ ~RatLT(RatAbs(RatSub(EvY(Len(events)), EvY(1))), Int2Rat(EPS))

\* C2 as claimed (P3): the window never holds more than DERIV_WINDOW entries.
P3_AsClaimed == Len(deriv) <= DERIV_WINDOW

\* C2 (P3, window bound), amended: the window never holds more than
\* max(2, DERIV_WINDOW) entries.
P3_WindowBound == Len(deriv) <= Capacity

\* C2 witness: three qualifying steps went into a window of capacity 2.
P3_Witness ==
    /\ DERIV_WINDOW = 2
    /\ Len(events) = 4
    /\ \A i \in Steps : ~StepNoise(i)
    /\ Len(deriv) = 2

\* The tick just detected: every tick is the latest one in the states that
\* follow its detection, so a statement about the latest tick in every
\* reachable state is a statement about every tick.
Latest == Len(events)

\* The last qualifying tick before tick n.
PrevQual(n) ==
    CHOOSE i \in 2..(n - 1) :
        ~StepNoise(i) /\ \A j \in (i + 1)..(n - 1) : StepNoise(j)

\* A qualifying tick that ends a run of w equal derivatives r with
\* abs(r) >= JUMP_RATE has the verdict is_jump = true.
SustainedFires(w) ==
    (/\ Latest >= 2
     /\ ~StepNoise(Latest)
     /\ TailConstant(QualRates(Latest), w)
     /\ AtOrAbove(StepRate(Latest))) => EvJump(Latest)

\* C3 as claimed (P4): after DERIV_WINDOW consecutive qualifying samples of
\* the same derivative r, abs(r) >= JUMP_RATE, every qualifying sample of
\* that derivative has the verdict is_jump = true.
P4_AsClaimed == SustainedFires(DERIV_WINDOW)

\* C3 (P4, monotone threshold), amended: the same after
\* max(2, DERIV_WINDOW) consecutive qualifying samples.
P4_MonotoneThreshold == SustainedFires(Capacity)

\* C3 witness: a run of two equal derivatives at or above JUMP_RATE that
\* follows a different derivative, and the tick ending it is a jump.
P4_Witness ==
    /\ Len(events) = 4
    /\ \A i \in Steps : ~StepNoise(i)
    /\ StepRate(4) = StepRate(3)
    /\ StepRate(3) # StepRate(2)
    /\ AtOrAbove(StepRate(4))
    /\ EvJump(4)

\* C4 as claimed (P5): every update of a run of at least two equal
\* derivatives r with abs(r) < JUMP_RATE has the verdict is_jump = false,
\* whatever the window held before the run.
P5_AsClaimed ==
    (/\ Latest >= 3
     /\ ~StepNoise(Latest)
     /\ ~AtOrAbove(StepRate(Latest))
     /\ TailConstant(QualRates(Latest), 2)) =>
        (~EvJump(Latest) /\ ~EvJump(PrevQual(Latest)))

\* C4 (P5, sub-threshold stays quiet), amended: an update of such a run has
\* the verdict is_jump = false once the window holds derivatives of the run
\* only: all qualifying derivatives so far, or the last max(2, DERIV_WINDOW)
\* of them, equal r.
P5_SubThresholdQuiet ==
    (/\ Latest >= 2
     /\ ~StepNoise(Latest)
     /\ ~AtOrAbove(StepRate(Latest))
     /\ TailConstant(QualRates(Latest), Min(Len(QualRates(Latest)), Capacity))) =>
        ~EvJump(Latest)

\* C4 witness: two equal sub-threshold derivatives after a larger one in a
\* window of capacity 2, and the second of them is quiet.
P5_Witness ==
    /\ Len(events) = 4
    /\ \A i \in Steps : ~StepNoise(i)
    /\ StepRate(4) = StepRate(3)
    /\ AtOrAbove(StepRate(2))
    /\ ~AtOrAbove(StepRate(4))
    /\ ~EvJump(4)

\* C5 (P1, no false jump on first sample): the first tick has the verdict
\* is_jump = false, leaves the window empty, prints no jump line and makes
\* its sample the reference sample.
P1_FirstSample ==
    /\ events = <<>> => (deriv = <<>> /\ JumpLines = <<>>)
    /\ Len(events) >= 1 => ~EvJump(1)
    /\ Len(events) = 1 =>
          /\ deriv = <<>>
          /\ JumpLines = <<>>
          /\ last_t = EvT(1)
          /\ last_y = EvY(1)
          /\ pc = "dispatch" => ~is_jump

\* C5 witness: the first tick is done and its value is at least EPS above 0.
P1_Witness ==
    /\ Len(events) = 1
    /\ pc = "dispatch"
    /\ RatLE(Int2Rat(EPS), EvY(1))

\* C6: do_lockscreen is invoked at most once in an execution.
TriggerAtMostOnce == lock_calls <= 1

\* C6 witness: the trigger was invoked, after an earlier tick without a jump.
TriggerOnce_Witness ==
    /\ lock_calls = 1
    /\ pc = "Triggered"
    /\ Len(events) >= 3

RunningPcs == {"loop", "reading", "detect", "dispatch", "sleep"}

\* C7: the step that leaves the dispatch of a tick (other than the SIGINT
\* handler) invokes the trigger and ends the process in that step, with no
\* sleep, read or detector update, exactly when the trigger is enabled and
\* is_jump is true, and goes on to the sleep otherwise; the trigger is
\* invoked and Triggered is entered by no other step, and Triggered is final.
TriggerTransition ==
    [][/\ (pc = "dispatch" /\ pc' # pc /\ sig' = sig) =>
            IF LOCKSCREEN_ON_JUMP /\ is_jump
            THEN /\ pc' = "Triggered"
                 /\ lock_calls' = lock_calls + 1
                 /\ exit_code' = <<0>>
                 /\ UNCHANGED <<reads, now, deriv, last_t, last_y, events, stdout>>
            ELSE /\ pc' = "sleep"
                 /\ lock_calls' = lock_calls
                 /\ exit_code' = None
       /\ (pc' = "Triggered" /\ pc # "Triggered") =>
            (pc = "dispatch" /\ LOCKSCREEN_ON_JUMP /\ is_jump)
       /\ lock_calls' # lock_calls => pc' = "Triggered"
       /\ pc = "Triggered" => vars' = vars
      ]_vars

\* C7 witness: a tick with a jump and the trigger enabled ended in Triggered.
TriggerTransition_Witness ==
    /\ pc = "Triggered"
    /\ LOCKSCREEN_ON_JUMP
    /\ is_jump
    /\ Len(events) = reads
    /\ reads >= 2

\* C8: once SIGINT is delivered no sensor read starts and the trigger is not
\* invoked; delivered while the loop is Running, it leads to Stopped.
Cancellation ==
    /\ [][sig # "none" => (reads' = reads /\ lock_calls' = lock_calls)]_vars
    /\ (sig = "pending" /\ pc \in RunningPcs) ~> (pc = "Stopped")

\* C8 witness: the loop was stopped by SIGINT while a read was in flight.
Cancellation_Witness ==
    /\ pc = "Stopped"
    /\ sig = "handled"
    /\ reads = 2
    /\ Len(events) = 1

\* C9 as claimed (scenario D): a process that ended after a SIGINT delivered
\* before the first sensor read is Stopped with exit code 0, no sensor read
\* and no jump line.
ScenarioD_AsClaimed ==
    (sig # "none" /\ reads = 0 /\ exit_code # None) =>
        /\ pc = "Stopped"
        /\ exit_code = <<0>>
        /\ JumpLines = <<>>

\* The smoothed rate of tick n by definition: the mean of the most recent
\* max(2, DERIV_WINDOW) qualifying derivatives up to n.
SmoothedRate(n) ==
    LET q == QualRates(n)
        m == Min(Len(q), Capacity)
        w == SubSeq(q, Len(q) - m + 1, Len(q))
    IN  RatDiv(Sum(w), Int2Rat(m))

RECURSIVE ExpectedJumpLines(_)
ExpectedJumpLines(n) ==
    IF n = 0 THEN <<>>
    ELSE IF EvJump(n)
         THEN Append(ExpectedJumpLines(n - 1),
                     <<"JUMP", FormatFixed(EvT(n), 3), FormatFixed(EvY(n), 2),
                       IF QualRates(n) = <<>> THEN 0
                       ELSE FormatFixed(SmoothedRate(n), 2)>>)
         ELSE ExpectedJumpLines(n - 1)

\* C10: the jump lines printed are, in order, one line per tick whose verdict
\* is is_jump = true, carrying that tick's timestamp, value and smoothed
\* rate; no line is printed for any other tick.
JumpRecordIffJump == JumpLines = ExpectedJumpLines(Len(events))

\* C10 witness: a tick with a jump, then a qualifying tick without one.
JumpRecord_Witness ==
    /\ Len(events) = 3
    /\ EvJump(2)
    /\ ~StepNoise(3)
    /\ ~EvJump(3)
    /\ Len(JumpLines) = 1


\* A step in which a sensor read fails: the traceback is printed.
ReadFails == Len(stderr') = Len(stderr) + 1 /\ stderr'[Len(stderr')] = "Traceback"

\* C11: a failing sensor read ends the run on that tick: the step leads from
\* the read to Failed with a non-zero exit code and leaves the window, the
\* reference sample, the printed jump lines, the detections and the trigger
\* count as they were; from Failed no step follows, so there is no further
\* read, detection, jump line or trigger.
ReadFailureTerminal ==
    [][/\ ReadFails =>
            /\ pc = "reading"
            /\ pc' = "Failed"
            /\ exit_code' # None
            /\ exit_code'[1] # 0
            /\ UNCHANGED <<deriv, last_t, last_y, stdout, events, reads, lock_calls>>
       /\ pc = "Failed" => UNCHANGED vars]_vars

\* C11 witness: the third read failed, the window holding a derivative.
ReadFailure_Witness ==
    /\ pc = "Failed"
    /\ reads = 3
    /\ Len(events) = 2
    /\ deriv # <<>>
    /\ last_t = EvT(2)
    /\ last_y = EvY(2)


Printed(log, line) == \E i \in 1..Len(log) : log[i] = line

NonZeroExit == exit_code # None /\ exit_code[1] # 0

\* C12: a run cancelled through the SIGINT handler and a run that dispatched
\* the trigger have ended with exit code 0; a run that found no sensor and a
\* run whose sensor read failed have ended with a non-zero exit code; when no
\* sensor was found no read was ever started.
ExitCodes ==
    /\ Printed(stderr, "Ctrl+C") => (pc = "Stopped" /\ exit_code = <<0>>)
    /\ lock_calls > 0 => (pc = "Triggered" /\ exit_code = <<0>>)
    /\ Printed(stderr, "no sensor") =>
          (pc = "NoSensor" /\ NonZeroExit /\ reads = 0 /\ events = <<>>)
    /\ Printed(stderr, "Traceback") => (pc = "Failed" /\ NonZeroExit)

\* C12 witness: the run ended because no sensor was found.
ExitCodes_Witness ==
    /\ pc = "NoSensor"
    /\ Printed(stderr, "no sensor")
    /\ exit_code = <<1>>
    /\ reads = 0


\* C13 as claimed: a sample with a non-finite value is rejected and leaves
\* the detector state as it was, so the reference sample and the window
\* never hold a non-finite number and no tick with a non-finite value has
\* the verdict is_jump = true.
InvalidSample_AsClaimed ==
    /\ last_y = None \/ IsFinite(last_y)
    /\ \A i \in 1..Len(deriv) : IsFinite(deriv[i])
    /\ \A i \in Ticks : ~IsFinite(EvY(i)) => ~EvJump(i)


\* The number of times line was printed to log.
Count(log, line) == Cardinality({i \in 1..Len(log) : log[i] = line})

\* C14: when the trigger action raised, the error was printed once, the
\* action was invoked once only, and the run has ended Triggered with exit
\* code 0, as when the action succeeds.
TriggerErrorNonFatal ==
    pmset = "raised" =>
        /\ Count(stderr, "pmset error") = 1
        /\ stderr[Len(stderr)] = "pmset error"
        /\ lock_calls = 1
        /\ pc = "Triggered"
        /\ exit_code = <<0>>

\* C14 witness: the trigger action raised and the run ended Triggered.
TriggerError_Witness ==
    /\ pmset = "raised"
    /\ pc = "Triggered"
    /\ Printed(stderr, "pmset error")


\* The most recent min(Len(q), capacity) entries of q, in order.
MostRecent(q) == SubSeq(q, Len(q) - Min(Len(q), Capacity) + 1, Len(q))

\* C15: the window holds the most recent min(n, capacity) derivatives of the
\* qualifying steps so far, in arrival order, and the latest tick has the
\* verdict is_jump = true exactly when its step qualifies and the absolute
\* mean of the window after the append is at least JUMP_RATE, whether or
\* not the window is full.
VerdictDefinition ==
    /\ deriv = MostRecent(QualRates(Latest))
    /\ Latest >= 1 =>
          (EvJump(Latest) <=>
              /\ Latest >= 2
              /\ ~StepNoise(Latest)
              /\ AtOrAbove(RatDiv(Sum(deriv), Int2Rat(Len(deriv)))))

\* C15 witness: the first qualifying step of a fresh detector is a jump
\* although the window holds one entry of its two.
Verdict_Witness ==
    /\ Latest = 2
    /\ ~StepNoise(2)
    /\ EvJump(2)
    /\ Len(deriv) = 1
    /\ Len(deriv) < Capacity


\* C16: the detection step of every tick makes the sample just read the
\* reference sample; when the step of the value is below EPS it leaves the
\* window as it was, gives the verdict is_jump = false and prints nothing.
NoiseStepFrame ==
    [][(pc = "detect" /\ pc' = "dispatch") =>
          /\ last_t' = t
          /\ last_y' = y
          /\ (last_t # None /\ RatLT(RatAbs(RatSub(y, last_y)), Int2Rat(EPS))) =>
                (deriv' = deriv /\ ~is_jump' /\ stdout' = stdout)]_vars

\* C16 witness: a step below EPS came after a qualifying one; the window
\* still holds its one derivative and the reference sample is the new one.
NoiseStep_Witness ==
    /\ pc = "dispatch"
    /\ Latest = 3
    /\ ~StepNoise(2)
    /\ StepNoise(3)
    /\ EvY(3) # EvY(2)
    /\ deriv = <<StepRate(2)>>
    /\ ~is_jump
    /\ last_t = EvT(3)
    /\ last_y = EvY(3)


\* C17: whatever the order of the two timestamps, a qualifying step appends
\* dy divided by t - last_t when that exceeds 1e-6 and by 1e-6 otherwise:
\* the derivative is a finite number with the sign of dy.
DtClamp ==
    (pc = "dispatch" /\ Latest = 2 /\ ~StepNoise(2)) =>
        LET raw == RatSub(EvT(2), EvT(1))
            dy == StepDy(2)
        IN  /\ Len(deriv) = 1
            /\ IsFinite(deriv[1])
            /\ Sgn(deriv[1][1]) = Sgn(dy[1])
            /\ deriv[1] = IF RatLT(Rat(1, 1000000), raw) THEN RatDiv(dy, raw)
                          ELSE RatMul(dy, Int2Rat(1000000))

\* C17 witness: the new sample is older than the reference sample and its
\* value lower; the derivative appended is dy * 10^6, a negative number.
DtClamp_Witness ==
    /\ pc = "dispatch"
    /\ Latest = 2
    /\ RatLT(EvT(2), EvT(1))
    /\ ~StepNoise(2)
    /\ StepDy(2)[1] < 0
    /\ deriv = <<RatMul(StepDy(2), Int2Rat(1000000))>>


\* The jump points of the first n ticks by the verdicts of the headless
\* run: timestamps relative to t0, and values.
RECURSIVE JumpMarks(_)
JumpMarks(n) ==
    IF n = 0 THEN <<>>
    ELSE IF EvJump(n) THEN Append(JumpMarks(n - 1), <<RatSub(EvT(n), t0), EvY(n)>>)
         ELSE JumpMarks(n - 1)

\* C18: fed the samples of the headless run, the plot callback has marked
\* exactly the ticks to which the headless run gave the verdict is_jump =
\* true; once it has consumed the same ticks its window equals the headless
\* window and its marks are, one for one, the jump lines printed.
PlotEquivalence ==
    /\ Len(jx) = Len(jy)
    /\ [i \in 1..Len(jx) |-> <<jx[i], jy[i]>>] = JumpMarks(frame)
    /\ frame = Latest =>
          /\ plot_deriv = deriv
          /\ Len(jx) = Len(JumpLines)
          /\ \A i \in 1..Len(jx) :
                /\ FormatFixed(RatAdd(jx[i], t0), 3) = JumpLines[i][2]
                /\ FormatFixed(jy[i], 2) = JumpLines[i][3]

\* C18 witness: three ticks consumed by both paths, the clock far from
\* t0 = 0, a jump marked at the second tick and none at the third, the
\* windows holding two derivatives.
PlotEquivalence_Witness ==
    /\ frame = 3
    /\ Latest = 3
    /\ t0 # Int2Rat(0)
    /\ EvJump(2)
    /\ ~EvJump(3)
    /\ jx = <<RatSub(EvT(2), t0)>>
    /\ jx[1] # EvT(2)
    /\ Len(plot_deriv) = 2


\* C19: a read starts only from the head of the loop, after the detection
\* of the previous tick and at least one period after its timestamp; the
\* detection of a tick follows its read; the trigger is invoked only after
\* the detection of the same tick, when that tick's jump line is the last
\* line printed and the reference sample is that tick's sample; the clock
\* advances during the sleep that ends the tick.
EffectOrder ==
    [][/\ reads' # reads =>
            /\ pc = "loop"
            /\ Latest = reads
            /\ reads > 0 => RatLE(RatAdd(last_t, period), now)
       /\ events' # events =>
            /\ pc = "detect"
            /\ Latest = reads - 1
       /\ lock_calls' # lock_calls =>
            /\ pc = "dispatch"
            /\ Latest = reads
            /\ EvJump(Latest)
            /\ stdout # <<>>
            /\ stdout[Len(stdout)][1] = "JUMP"
            /\ stdout[Len(stdout)][2] = FormatFixed(t, 3)
            /\ stdout[Len(stdout)][3] = FormatFixed(y, 2)
            /\ last_t = t
            /\ last_y = y
       /\ now' # now =>
            /\ pc = "sleep"
            /\ Latest = reads]_vars

\* C19 witness: the trigger was invoked at the third tick, after two sleeps,
\* that tick's jump line being the second one printed.
EffectOrder_Witness ==
    /\ pc = "Triggered"
    /\ lock_calls = 1
    /\ reads = 3
    /\ Latest = 3
    /\ EvJump(3)
    /\ ~EvJump(2)
    /\ Len(JumpLines) = 1
    /\ last_t = EvT(3)
    /\ RatLE(RatAdd(EvT(2), period), EvT(3))

====
